---------------------------- MODULE Spec2Model ----------------------------
(***************************************************************************)
(* Model of DiscordBotService (src/src/discord-bot/discord-bot.service.ts):*)
(* the slash-command dispatcher, the three handlers (restart, status,      *)
(* admin-msg), sendAdminMessage and the SSH remote executor runRemote.     *)
(*                                                                         *)
(* Every interaction is one asynchronous flow.  An action of the model is  *)
(* one turn of the Node.js event loop for one interaction: the callback    *)
(* that fires (a Discord send settling, a timer, an ssh2 event) together   *)
(* with the continuation the handler runs up to its next await.            *)
(***************************************************************************)
EXTENDS Integers, Sequences, FiniteSets, TLC

(***************************************************************************)
(* Bounds of the model.                                                    *)
(***************************************************************************)
NumEvents == 1    \* interactions that may be in flight
MaxChunks == 1    \* 'data' events per output stream of one remote command

Events == 1..NumEvents

(***************************************************************************)
(* Text.  A string is a sequence of segments; a segment is the first `len` *)
(* characters of the text named `src` (a literal of the source, or a text  *)
(* produced outside the program: remote output, a library error message,   *)
(* the msg option).  `ev` is the interaction whose remote session or       *)
(* option produced the text, 0 for literals.                               *)
(***************************************************************************)
Seg(src, e, n) == IF n = 0 THEN << >> ELSE << [src |-> src, ev |-> e, len |-> n] >>

Lit(s) == Seg(s, 0, Len(s))

RECURSIVE TextLen(_)
TextLen(t) == IF t = << >> THEN 0 ELSE Head(t).len + TextLen(Tail(t))

\* String.prototype.slice(0, n)
RECURSIVE Slice(_, _)
Slice(t, n) ==
    IF t = << >> \/ n <= 0 THEN << >>
    ELSE IF Head(t).len <= n
         THEN << Head(t) >> \o Slice(Tail(t), n - Head(t).len)
         ELSE << [Head(t) EXCEPT !.len = n] >>

\* The bound of every .slice(0, 1900) of the service.
SliceLimit == 1900

\* setMaxLength(1800) of the msg option.
MsgMaxLength == 1800

\* a || b || 'no output' on strings: the empty string is falsy.
Truthy(t) == TextLen(t) > 0

\* (stderr || stdout || 'no output').slice(0, 1900)
OutOf(so, se) ==
    Slice(IF Truthy(se) THEN se ELSE IF Truthy(so) THEN so ELSE Lit("no output"),
          SliceLimit)

\* Lengths of the texts the environment produces.
OutLens   == {4, 1901}        \* one 'data' chunk of remote stdout
ErrOutLens == {4}             \* one 'data' chunk of remote stderr
ErrLens   == {25, 1950}       \* the message of an ssh2 error
MsgLens   == {MsgMaxLength}   \* the msg option of admin-msg

\* The exit code delivered on stream 'close': number | null.
NullCode == -1
ExitCodes == {NullCode, 0, 1}

\* `${code}` for a number.
CodeText(c) == IF c = 0 THEN Lit("0") ELSE IF c = 1 THEN Lit("1") ELSE Lit("null")


(***************************************************************************)
(* Configuration (ConfigService).  A value is "absent" (undefined or ''),  *)
(* "blank" (only white space) or "set".                                    *)
(***************************************************************************)
ConfigKeys ==
    {"PZ_SEND_MSG_CMD", "RESTART_CMD", "STATUS_CMD", "SSH_HOST", "SSH_USER",
     "SSH_PRIVATE_KEY_B64", "SSH_PRIVATE_KEY", "SSH_KEY_PASSPHRASE", "SSH_PASSWORD"}

FullCfg == [k \in ConfigKeys |-> "set"]

PasswordCfg ==
    [FullCfg EXCEPT !["SSH_PRIVATE_KEY_B64"] = "absent", !["SSH_PRIVATE_KEY"] = "absent",
                    !["SSH_KEY_PASSPHRASE"] = "absent"]

NoCredsCfg == [PasswordCfg EXCEPT !["SSH_PASSWORD"] = "absent"]

\* The configurations the service is started with.
Configs ==
    {FullCfg, NoCredsCfg,
     [PasswordCfg EXCEPT !["RESTART_CMD"] = "absent", !["PZ_SEND_MSG_CMD"] = "blank"],
     [FullCfg EXCEPT !["SSH_HOST"] = "absent"]}

\* Results of operations that may throw: a value or an error message.
Ok(v)     == [ok |-> TRUE, val |-> v, err |-> << >>]
Throw(msg) == [ok |-> FALSE, val |-> "", err |-> msg]

\* req(name): throws `${name} not set` unless the value is non-blank.
req(c, name) ==
    IF c[name] = "set" THEN Ok(name) ELSE Throw(Lit(name) \o Lit(" not set"))

\* cfg.get(name) as a condition: every non-empty string is truthy.
Has(c, name) == c[name] # "absent"

NoCredentialsMsg ==
    Lit("No SSH credentials: set SSH_PRIVATE_KEY_B64 or SSH_PRIVATE_KEY or SSH_PASSWORD")

\* privateKey of runRemote: "b64", "raw" or "" (undefined or the empty string).
\* A base64 value without base64 characters decodes to the empty string.
PrivateKey(c) ==
    IF Has(c, "SSH_PRIVATE_KEY_B64")
    THEN (IF c["SSH_PRIVATE_KEY_B64"] = "set" THEN "b64" ELSE "")
    ELSE IF Has(c, "SSH_PRIVATE_KEY") THEN "raw" ELSE ""

\* The auth descriptor of runRemote, or the no-credentials error.
ResolveAuth(c) ==
    IF PrivateKey(c) # ""
    THEN Ok([privateKey |-> PrivateKey(c),
             passphrase |-> Has(c, "SSH_KEY_PASSPHRASE"),
             password   |-> FALSE])
    ELSE IF Has(c, "SSH_PASSWORD")
    THEN Ok([privateKey |-> "", passphrase |-> FALSE, password |-> TRUE])
    ELSE Throw(NoCredentialsMsg)

\* The part of runRemote that runs before the session is created.
RunRemotePre(c) ==
    IF ~req(c, "SSH_HOST").ok THEN req(c, "SSH_HOST")
    ELSE IF ~req(c, "SSH_USER").ok THEN req(c, "SSH_USER")
    ELSE ResolveAuth(c)

(***************************************************************************)
(* Authorization.  The invoker of an interaction: its user id, the shape   *)
(* of i.member ("none": null; "api": raw member data whose roles is an     *)
(* array of ids; "guild": a cached GuildMember, whose roles is a role      *)
(* manager without an includes method), its role ids and whether           *)
(* memberPermissions has Administrator.                                    *)
(***************************************************************************)
NoId == "none"

Invokers ==
    { [user |-> "U1", member |-> "api",   roles |-> {},     admin |-> FALSE],
      [user |-> "U2", member |-> "api",   roles |-> {"R1"}, admin |-> FALSE],
      [user |-> "U2", member |-> "api",   roles |-> {},     admin |-> TRUE],
      [user |-> "U2", member |-> "none",  roles |-> {},     admin |-> FALSE],
      [user |-> "U2", member |-> "guild", roles |-> {"R1"}, admin |-> FALSE] }

\* allowedUser / allowedRole of the service under check.
Policies == { [user |-> "U1", role |-> "R1"] }

\* isAllowed(i): "allow", "deny", or "throw" (the TypeError of calling
\* roles.includes on a role manager).
isAllowed(p, who) ==
    IF p.user # NoId /\ who.user = p.user THEN "allow"
    ELSE IF p.role # NoId /\ who.member = "guild" THEN "throw"
    ELSE IF p.role # NoId /\ who.member = "api" /\ p.role \in who.roles THEN "allow"
    ELSE IF who.admin THEN "allow" ELSE "deny"

(***************************************************************************)
(* The messages of the handlers.                                           *)
(***************************************************************************)
NotAuthorized == Lit("Not authorized.")
Starting      == Lit("Comenzando reinicio...")
RestartOk     == Lit("Reinicio exitoso, esperar a que inicie...")

\* The three warning steps of handleRestart: text and delay in seconds.
WarningTexts ==
    << Lit("ADVERTENCIA: El server se reiniciara en 2 minutos"),
       Lit("ADVERTENCIA: El server se reiniciara en 30 segundos"),
       Lit("ADVERTENCIA: El server se reiniciara en 10 segundos") >>
WarningDelays == << 90, 20, 10 >>
NumWarnings == Len(WarningDelays)

RestartFailed(code, out) ==
    Lit("Restart command failed. code=") \o CodeText(code) \o Lit("\n") \o out
StatusOk(so) == Lit("Estado del server: ") \o so
StatusFailed(code, out) ==
    Lit("Status command failed. code=") \o CodeText(code) \o Lit("\n") \o out
StatusError(msg)   == Slice(Lit("Error: ") \o msg, SliceLimit)
CommandFailed(msg) == Slice(Lit("Command Failed: ") \o msg, SliceLimit)
SendMsgFailed(code, out) ==
    Lit("Send Msg Failed. code=") \o CodeText(code) \o Lit("\n") \o out
MsgSent(msg) == Lit("Mensaje enviado: ") \o msg

\* The message of the error a rejected Discord send carries.
DiscordError == Lit("Unknown interaction")

Commands == {"restart", "restart-force", "status", "admin-msg"}

(***************************************************************************)
(* State.                                                                  *)
(***************************************************************************)
VARIABLES
    policy,   \* allowedUser / allowedRole, read once by the constructor
    cfg,      \* the configuration, read-only after construction
    ev,       \* per interaction: command name, msg option, what isAllowed
              \* says of its invoker
    pc,       \* per interaction: the await its handler is suspended at
    step,     \* per interaction: the warning step of handleRestart
    sending,  \* per interaction: the Discord send the handler awaits
    call,     \* per interaction: its latest runRemote call and session
    trace     \* per interaction: what it did, in order

vars == << policy, cfg, ev, pc, step, sending, call, trace >>

NoEv   == [cmd |-> "none", auth |-> "none", msg |-> << >>]
NoSend == [via |-> "none", text |-> << >>]
NoAuth == [privateKey |-> "", passphrase |-> FALSE, password |-> FALSE]
\* `auth` is the descriptor handed to conn.connect; `code` is the exit code
\* the stream's 'close' event delivered, before `code ?? 0`.
NoCall ==
    [cmd |-> "none", arg |-> << >>, role |-> "none", conn |-> "none",
     stream |-> FALSE, settled |-> "none", ends |-> 0,
     stdout |-> << >>, stderr |-> << >>, nout |-> 0, nerr |-> 0,
     auth |-> NoAuth, code |-> 0]

\* new SSHClient(); let stdout = '', stderr = ''; conn.connect(auth)
NewCall(cmd, arg, role) ==
    [NoCall EXCEPT !.cmd = cmd, !.arg = arg, !.role = role,
                   !.conn = "connecting", !.settled = "pending",
                   !.auth = ResolveAuth(cfg).val]

Init ==
    /\ policy \in Policies
    /\ cfg \in Configs
    /\ ev = [e \in Events |-> NoEv]
    /\ pc = [e \in Events |-> "idle"]
    /\ step = [e \in Events |-> 0]
    /\ sending = [e \in Events |-> NoSend]
    /\ call = [e \in Events |-> NoCall]
    /\ trace = [e \in Events |-> << >>]

(***************************************************************************)
(* Entries of the trace.                                                   *)
(***************************************************************************)
SendEntry(m, ok) == [t |-> "send", via |-> m.via, text |-> m.text, ok |-> ok]
RemoteEntry(cmd, arg, session) ==
    [t |-> "remote", cmd |-> cmd, arg |-> arg, session |-> session]
SettleEntry(cmd, ok, code) == [t |-> "settled", cmd |-> cmd, ok |-> ok, code |-> code]
DelayEntry(secs) == [t |-> "delay", secs |-> secs]
EndEntry(cmd)    == [t |-> "end", cmd |-> cmd]
Unhandled        == [t |-> "unhandled"]

\* One interaction's step: its new position, pending send, call and trace.
Upd(e, npc, nstep, nsend, ncall, add) ==
    /\ pc' = [pc EXCEPT ![e] = npc]
    /\ step' = [step EXCEPT ![e] = nstep]
    /\ sending' = [sending EXCEPT ![e] = nsend]
    /\ call' = [call EXCEPT ![e] = ncall]
    /\ trace' = [trace EXCEPT ![e] = @ \o add]
    /\ UNCHANGED << policy, cfg >>

(***************************************************************************)
(* Pieces of the handlers.  A piece is the handler's run from one point to *)
(* its next await: [pc, step, sending, call, add].                         *)
(***************************************************************************)
Piece(npc, nstep, nsend, ncall, add) ==
    [pc |-> npc, step |-> nstep, sending |-> nsend, call |-> ncall, add |-> add]

\* catch (e) of the handler of command c: the failure message it sends.
CatchSend(c, msg) ==
    IF c = "status" THEN [via |-> "editReply", text |-> StatusError(msg)]
    ELSE [via |-> "followUp", text |-> CommandFailed(msg)]

Catch(e, msg, oldcall, add) ==
    Piece("catch_send", step[e], CatchSend(ev[e].cmd, msg), oldcall, add)

\* const cmd = this.req(key) (with the $1 substitution for the message
\* command), then this.runRemote(cmd) up to the creation of the session:
\* the error thrown, or the call created.
Invoke(key, arg, role) ==
    IF ~req(cfg, key).ok
    THEN [ok |-> FALSE, err |-> req(cfg, key).err, call |-> NoCall, add |-> << >>]
    ELSE IF ~RunRemotePre(cfg).ok
    THEN [ok |-> FALSE, err |-> RunRemotePre(cfg).err, call |-> NoCall,
          add |-> << RemoteEntry(key, arg, FALSE) >>]
    ELSE [ok |-> TRUE, err |-> << >>, call |-> NewCall(key, arg, role),
          add |-> << RemoteEntry(key, arg, TRUE) >>]

\* Inside a try block: await the remote command `key`, or catch what
\* starting it throws.
TryRemote(e, key, arg, npc, nstep, add) ==
    LET r == Invoke(key, arg, "awaited") IN
    IF r.ok THEN Piece(npc, nstep, NoSend, r.call, add \o r.add)
    ELSE [Catch(e, r.err, call[e], add \o r.add) EXCEPT !.step = nstep]

\* Mutant of TryWarning: the broadcasts go out in the reverse order.
TryWarningReversed(e, k, add) ==
    TryRemote(e, "PZ_SEND_MSG_CMD", WarningTexts[NumWarnings + 1 - k],
              "warn_remote", k, add)

\* await this.sendAdminMessage(WarningTexts[k])
TryWarning(e, k, add) ==
    TryRemote(e, "PZ_SEND_MSG_CMD", WarningTexts[k], "warn_remote", k, add)

\* const cmd = this.req('RESTART_CMD'); await this.runRemote(cmd)
TryRestart(e, add) ==
    TryRemote(e, "RESTART_CMD", << >>, "exec_remote", step[e], add)

\* const cmd = this.req('STATUS_CMD'); await this.runRemote(cmd)
TryStatus(e, add) ==
    TryRemote(e, "STATUS_CMD", << >>, "exec_remote", step[e], add)

\* handleAdminMsg after deferReply: this.sendAdminMessage(msg) without
\* await (what it throws rejects a promise nobody handles), then the
\* followUp of 'Mensaje enviado'.
AdminMsgBody(e, add) ==
    LET r == Invoke("PZ_SEND_MSG_CMD", ev[e].msg, "floating") IN
    Piece("final_send", step[e],
          [via |-> "followUp", text |-> MsgSent(ev[e].msg)],
          IF r.ok THEN r.call ELSE call[e],
          add \o r.add \o (IF r.ok THEN << >> ELSE << Unhandled >>))

Do(e, p) == Upd(e, p.pc, p.step, p.sending, p.call, p.add)

Resolved(code, so, se) == [ok |-> TRUE, code |-> code, stdout |-> so, stderr |-> se, err |-> << >>]
Rejected(msg) == [ok |-> FALSE, code |-> 0, stdout |-> << >>, stderr |-> << >>, err |-> msg]

\* Mutant of AfterWarning: a failed broadcast is ignored.
AfterWarningLenient(e, c, res, add) ==
    Piece("warn_send", step[e],
          [via |-> "followUp", text |-> WarningTexts[step[e]]], c, add)

\* What follows `await this.sendAdminMessage(...)` in handleRestart:
\* sendAdminMessage throws on a non-zero code, the handler sends the
\* warning to the invoker on success.
AfterWarning(e, c, res, add) ==
    IF res.ok /\ res.code = 0
    THEN Piece("warn_send", step[e],
               [via |-> "followUp", text |-> WarningTexts[step[e]]], c, add)
    ELSE IF res.ok
    THEN Catch(e, SendMsgFailed(res.code, OutOf(res.stdout, res.stderr)), c, add)
    ELSE Catch(e, res.err, c, add)

\* Mutant of AfterRestart: a failed restart command is run again.
AfterRestartRetry(e, c, res, add) ==
    IF res.ok /\ res.code = 0
    THEN Piece("final_send", step[e], [via |-> "followUp", text |-> RestartOk], c, add)
    ELSE TryRestart(e, add)

\* What follows `await this.runRemote(cmd)` in handleRestart.
AfterRestart(e, c, res, add) ==
    IF res.ok /\ res.code = 0
    THEN Piece("final_send", step[e], [via |-> "followUp", text |-> RestartOk], c, add)
    ELSE IF res.ok
    THEN Piece("final_send", step[e],
               [via |-> "followUp",
                text |-> RestartFailed(res.code, OutOf(res.stdout, res.stderr))], c, add)
    ELSE Catch(e, res.err, c, add)

\* What follows `await this.runRemote(cmd)` in handleStatus.
AfterStatus(e, c, res, add) ==
    IF res.ok /\ res.code = 0
    THEN Piece("final_send", step[e],
               [via |-> "editReply", text |-> StatusOk(res.stdout)], c, add)
    ELSE IF res.ok
    THEN Piece("final_send", step[e],
               [via |-> "editReply",
                text |-> StatusFailed(res.code, OutOf(res.stdout, res.stderr))], c, add)
    ELSE Catch(e, res.err, c, add)

\* What follows the floating sendAdminMessage of handleAdminMsg: nothing
\* awaits it; a non-zero code or an error rejects a promise nobody handles.
AfterFloating(e, c, res, add) ==
    Piece(pc[e], step[e], sending[e], c,
          add \o (IF res.ok /\ res.code = 0 THEN << >> ELSE << Unhandled >>))

\* The promise of runRemote settles: the continuation of whoever called it.
AfterRemote(e, c, res, add) ==
    IF c.role = "floating" THEN AfterFloating(e, c, res, add)
    ELSE IF pc[e] = "warn_remote" THEN AfterWarning(e, c, res, add)
    ELSE IF ev[e].cmd = "status" THEN AfterStatus(e, c, res, add)
    ELSE AfterRestart(e, c, res, add)

\* resolve / reject of the promise of runRemote: only the first one settles.
Settle(e, c, res, add) ==
    IF call[e].settled = "pending"
    THEN Do(e, AfterRemote(e,
                 [c EXCEPT !.settled = IF res.ok THEN "resolved" ELSE "rejected",
                           !.stdout = << >>, !.stderr = << >>,
                           !.nout = 0, !.nerr = 0],
                 res, add \o << SettleEntry(c.cmd, res.ok, res.code) >>))
    ELSE Do(e, Piece(pc[e], step[e], sending[e], c, add))

(***************************************************************************)
(* wireEvents: the interactionCreate listener, up to the handler's first   *)
(* await.                                                                  *)
(***************************************************************************)
Deferral == [via |-> "deferReply", text |-> << >>]

\* if (!this.isAllowed(i)) { await i.reply('Not authorized.'); return; }
\* await i.deferReply(...)
Guarded(e, who) ==
    LET a == isAllowed(policy, who) IN
    IF a = "throw" THEN Piece("rejected", 0, NoSend, NoCall, << Unhandled >>)
    ELSE IF a = "deny"
    THEN Piece("na_send", 0, [via |-> "reply", text |-> NotAuthorized], NoCall, << >>)
    ELSE Piece("defer", 0, Deferral, NoCall, << >>)

handleRestart(e, who) == Guarded(e, who)
handleStatus(e, who) == Guarded(e, who)
handleAdminMsg(e, who) == Piece("defer", 0, Deferral, NoCall, << >>)

Dispatch(e) ==
    /\ pc[e] = "idle"
    /\ \A d \in DOMAIN pc : d < e => pc[d] # "idle"
    /\ \E c \in Commands, who \in Invokers, n \in MsgLens :
         /\ ev' = [ev EXCEPT ![e] =
                     [cmd |-> c, auth |-> isAllowed(policy, who),
                      msg |-> IF c = "admin-msg" THEN Seg("msg", e, n) ELSE << >>]]
         /\ Do(e, IF c = "status" THEN handleStatus(e, who)
                  ELSE IF c = "admin-msg" THEN handleAdminMsg(e, who)
                  ELSE handleRestart(e, who))

(***************************************************************************)
(* A Discord send settles and the handler continues.  `ok` is whether the  *)
(* send was delivered; a rejected send throws at the await.                *)
(***************************************************************************)
Reject(e, add) == Piece("rejected", step[e], NoSend, call[e], add \o << Unhandled >>)
Return(e, add) == Piece("done", step[e], NoSend, call[e], add)

\* await i.reply({ content: 'Not authorized.' }); return
NotAuthorizedReplied(e) ==
    /\ pc[e] = "na_send"
    /\ \E ok \in BOOLEAN :
         LET add == << SendEntry(sending[e], ok) >> IN
         Do(e, IF ok THEN Return(e, add) ELSE Reject(e, add))
    /\ UNCHANGED ev

\* await i.deferReply({ ephemeral: true }) and what follows it.
Deferred(e) ==
    /\ pc[e] = "defer"
    /\ \E ok \in BOOLEAN :
         LET add == << SendEntry(sending[e], ok) >> IN
         Do(e, IF ~ok THEN Reject(e, add)
               ELSE IF ev[e].cmd = "status" THEN TryStatus(e, add)
               ELSE IF ev[e].cmd = "admin-msg" THEN AdminMsgBody(e, add)
               ELSE Piece("start_send", step[e],
                          [via |-> "editReply", text |-> Starting], call[e], add))
    /\ UNCHANGED ev

\* Mutant of Started: the force flag is ignored.
StartedIgnoringForce(e) ==
    /\ pc[e] = "start_send"
    /\ \E ok \in BOOLEAN :
         LET add == << SendEntry(sending[e], ok) >> IN
         Do(e, IF ~ok THEN Reject(e, add) ELSE TryWarning(e, 1, add))
    /\ UNCHANGED ev

\* await i.editReply('Comenzando reinicio...') and the start of the try block.
Started(e) ==
    /\ pc[e] = "start_send"
    /\ \E ok \in BOOLEAN :
         LET add == << SendEntry(sending[e], ok) >> IN
         Do(e, IF ~ok THEN Reject(e, add)
               ELSE IF ev[e].cmd = "restart-force" THEN TryRestart(e, add)
               ELSE TryWarning(e, 1, add))
    /\ UNCHANGED ev

\* Mutant of WarningSent: a progress message that cannot be sent is ignored.
WarningSentLenient(e) ==
    /\ pc[e] = "warn_send"
    /\ \E ok \in BOOLEAN :
         Do(e, Piece("warn_delay", step[e], NoSend, call[e],
                     << SendEntry(sending[e], ok) >>))
    /\ UNCHANGED ev

\* Mutant of WarningSent: the timer is not awaited.
WarningSentNoWait(e) ==
    /\ pc[e] = "warn_send"
    /\ \E ok \in BOOLEAN :
         LET add == << SendEntry(sending[e], ok) >> IN
         Do(e, IF ~ok THEN Catch(e, DiscordError, call[e], add)
               ELSE IF step[e] < NumWarnings THEN TryWarning(e, step[e] + 1, add)
               ELSE TryRestart(e, add))
    /\ UNCHANGED ev

\* await i.followUp(warning), then the timer is started.
WarningSent(e) ==
    /\ pc[e] = "warn_send"
    /\ \E ok \in BOOLEAN :
         LET add == << SendEntry(sending[e], ok) >> IN
         Do(e, IF ok THEN Piece("warn_delay", step[e], NoSend, call[e], add)
               ELSE Catch(e, DiscordError, call[e], add))
    /\ UNCHANGED ev

\* The setTimeout of a warning step fires: the next warning, or the restart.
DelayElapsed(e) ==
    /\ pc[e] = "warn_delay"
    /\ LET add == << DelayEntry(WarningDelays[step[e]]) >> IN
       Do(e, IF step[e] < NumWarnings THEN TryWarning(e, step[e] + 1, add)
             ELSE TryRestart(e, add))
    /\ UNCHANGED ev

\* The send of the result settles; inside the try block, so a rejected
\* send is caught and answered with the failure message.
FinalSent(e) ==
    /\ pc[e] = "final_send"
    /\ \E ok \in BOOLEAN :
         LET add == << SendEntry(sending[e], ok) >> IN
         Do(e, IF ok THEN Return(e, add) ELSE Catch(e, DiscordError, call[e], add))
    /\ UNCHANGED ev

\* The send of the catch block settles.
CatchSent(e) ==
    /\ pc[e] = "catch_send"
    /\ \E ok \in BOOLEAN :
         LET add == << SendEntry(sending[e], ok) >> IN
         Do(e, IF ok THEN Return(e, add) ELSE Reject(e, add))
    /\ UNCHANGED ev

(***************************************************************************)
(* runRemote: the callbacks of the session.                                *)
(***************************************************************************)
SshError(e, n) == Seg("ssh error", e, n)

\* 'ready': conn.exec(cmd, callback)
ConnReady(e) ==
    /\ call[e].conn = "connecting"
    /\ call' = [call EXCEPT ![e].conn = "exec"]
    /\ UNCHANGED << policy, cfg, ev, pc, step, sending, trace >>

\* The callback of conn.exec: an error (conn.end(); reject(err)) or the stream.
ExecCallback(e) ==
    /\ call[e].conn = "exec"
    /\ \/ \E n \in ErrLens :
            Settle(e, [call[e] EXCEPT !.conn = "ended", !.ends = @ + 1],
                   Rejected(SshError(e, n)), << EndEntry(call[e].cmd) >>)
       \/ Do(e, Piece(pc[e], step[e], sending[e],
                      [call[e] EXCEPT !.conn = "stream", !.stream = TRUE], << >>))
    /\ UNCHANGED ev

\* Mutant of StreamData: one accumulator shared by the open sessions.
StreamDataShared(e) ==
    /\ call[e].conn = "stream"
    /\ call[e].nout < MaxChunks
    /\ \E n \in OutLens :
         call' = [d \in DOMAIN call |->
                    IF d = e
                    THEN [call[d] EXCEPT !.stdout = Seg("stdout", e, TextLen(@) + n),
                                         !.nout = @ + 1]
                    ELSE IF call[d].conn = "stream"
                    THEN [call[d] EXCEPT !.stdout = @ \o Seg("stdout", e, n)]
                    ELSE call[d]]
    /\ UNCHANGED << policy, cfg, ev, pc, step, sending, trace >>

\* stream 'data': stdout += d.toString()
StreamData(e) ==
    /\ call[e].conn = "stream"
    /\ call[e].nout < MaxChunks
    /\ \E n \in OutLens :
         call' = [call EXCEPT ![e].stdout = Seg("stdout", e, TextLen(@) + n),
                              ![e].nout = @ + 1]
    /\ UNCHANGED << policy, cfg, ev, pc, step, sending, trace >>

\* stream.stderr 'data': stderr += d.toString()
StreamErrData(e) ==
    /\ call[e].conn = "stream"
    /\ call[e].nerr < MaxChunks
    /\ \E n \in ErrOutLens :
         call' = [call EXCEPT ![e].stderr = Seg("stderr", e, TextLen(@) + n),
                              ![e].nerr = @ + 1]
    /\ UNCHANGED << policy, cfg, ev, pc, step, sending, trace >>

\* Mutant of StreamClose: the exit code is passed on as delivered.
StreamCloseRaw(e) ==
    /\ call[e].conn = "stream"
    /\ \E code \in ExitCodes :
         Settle(e, [call[e] EXCEPT !.stream = FALSE, !.ends = @ + 1, !.conn = "ended",
                                   !.code = code],
                Resolved(code, call[e].stdout, call[e].stderr),
                << EndEntry(call[e].cmd) >>)
    /\ UNCHANGED ev

\* stream 'close': conn.end(); resolve({ code: code ?? 0, stdout, stderr }).
StreamClose(e) ==
    /\ call[e].conn = "stream"
    /\ \E code \in ExitCodes :
         Settle(e, [call[e] EXCEPT !.stream = FALSE, !.ends = @ + 1, !.conn = "ended",
                                   !.code = code],
                Resolved(IF code = NullCode THEN 0 ELSE code,
                         call[e].stdout, call[e].stderr),
                << EndEntry(call[e].cmd) >>)
    /\ UNCHANGED ev

\* conn 'error': reject(err); conn.end() is not called.  The connection is
\* gone and the session delivers nothing more.
ConnError(e) ==
    /\ call[e].conn \in {"connecting", "exec", "stream"}
    /\ \E n \in ErrLens :
         Settle(e, [call[e] EXCEPT !.conn = "dead", !.stream = FALSE],
                Rejected(SshError(e, n)), << >>)
    /\ UNCHANGED ev

Next ==
    \E e \in Events :
        \/ Dispatch(e)
        \/ NotAuthorizedReplied(e)
        \/ Deferred(e)
        \/ Started(e)
        \/ WarningSent(e)
        \/ DelayElapsed(e)
        \/ FinalSent(e)
        \/ CatchSent(e)
        \/ ConnReady(e)
        \/ ExecCallback(e)
        \/ StreamData(e)
        \/ StreamErrData(e)
        \/ StreamClose(e)
        \/ ConnError(e)

Spec == Init /\ [][Next]_vars

(***************************************************************************)
(* Reading the trace of an interaction.                                    *)
(***************************************************************************)
Idx(e) == DOMAIN trace[e]

IsRemote(e, i, key) == trace[e][i].t = "remote" /\ trace[e][i].cmd = key
IsSend(e, i)        == trace[e][i].t = "send"
IsDelay(e, i)       == trace[e][i].t = "delay"
IsSettled(e, i, key) == trace[e][i].t = "settled" /\ trace[e][i].cmd = key
IsUnhandled(e, i)   == trace[e][i].t = "unhandled"

RemoteIdx(e, key) == {i \in Idx(e) : IsRemote(e, i, key)}
AnyRemoteIdx(e)   == {i \in Idx(e) : trace[e][i].t = "remote"}

\* A settled remote command that did not succeed: an error, or a non-zero code.
Failed(x) == ~x.ok \/ x.code # 0

FirstSrc(t) == IF t = << >> THEN "" ELSE Head(t).src

SuccessPrefixes ==
    {FirstSrc(RestartOk), FirstSrc(StatusOk(<< >>)), FirstSrc(MsgSent(<< >>))}
FailurePrefixes ==
    {FirstSrc(RestartFailed(1, << >>)), FirstSrc(StatusFailed(1, << >>)),
     FirstSrc(CommandFailed(<< >>)), FirstSrc(StatusError(<< >>))}
TerminalPrefixes == SuccessPrefixes \cup FailurePrefixes \cup {FirstSrc(NotAuthorized)}

IsSuccessSend(e, i)  == IsSend(e, i) /\ FirstSrc(trace[e][i].text) \in SuccessPrefixes
IsFailureSend(e, i)  == IsSend(e, i) /\ FirstSrc(trace[e][i].text) \in FailurePrefixes
IsTerminalSend(e, i) == IsSend(e, i) /\ FirstSrc(trace[e][i].text) \in TerminalPrefixes
IsWarningSend(e, i)  ==
    IsSend(e, i) /\ \E k \in DOMAIN WarningTexts : trace[e][i].text = WarningTexts[k]

\* The configuration key of the privileged command of a slash command.
PrivilegedCmd(c) ==
    IF c = "status" THEN "STATUS_CMD"
    ELSE IF c = "admin-msg" THEN "PZ_SEND_MSG_CMD" ELSE "RESTART_CMD"

Finished(e) == pc[e] \in {"done", "rejected"}

\* The delays that elapsed within the first i entries of the trace, in order.
RECURSIVE DelaysUpTo(_, _)
DelaysUpTo(e, i) ==
    IF i = 0 THEN << >>
    ELSE DelaysUpTo(e, i - 1) \o
         (IF IsDelay(e, i) THEN << trace[e][i].secs >> ELSE << >>)

RECURSIVE SumSeq(_)
SumSeq(s) == IF s = << >> THEN 0 ELSE Head(s) + SumSeq(Tail(s))

(***************************************************************************)
(* C1.  An interaction whose invoker the authorizer denies opens no remote *)
(* session (runRemote is never invoked for it) and the only message sent   *)
(* for it is 'Not authorized.'.  Stated for all four commands; violated by *)
(* admin-msg, whose handler never consults isAllowed.                      *)
(***************************************************************************)
C1_DeniedNoRemoteEffect ==
    \A e \in Events :
        ev[e].auth = "deny" =>
            /\ AnyRemoteIdx(e) = {}
            /\ call[e].conn = "none"
            /\ \A i \in Idx(e) : IsSend(e, i) => trace[e][i].text = NotAuthorized

(***************************************************************************)
(* C2.  For each interaction the privileged command of its operation is    *)
(* passed to runRemote at most once.                                       *)
(***************************************************************************)
C2_PrivilegedAtMostOnce ==
    \A e \in Events :
        ev[e].cmd \in Commands =>
            Cardinality(RemoteIdx(e, PrivilegedCmd(ev[e].cmd))) <= 1

\* A non-forced restart that ran its three broadcasts and then the restart
\* command once, and has reported.
C2_Witness ==
    \E e \in Events :
        /\ ev[e].cmd = "restart"
        /\ pc[e] = "done"
        /\ Cardinality(RemoteIdx(e, "RESTART_CMD")) = 1
        /\ Cardinality(RemoteIdx(e, "PZ_SEND_MSG_CMD")) = NumWarnings
        /\ \E i \in Idx(e) : IsSettled(e, i, "RESTART_CMD") /\ Failed(trace[e][i])

(***************************************************************************)
(* C3.  Original statement: in a non-forced restart every warning          *)
(* broadcast, whether it succeeds or fails (non-zero exit or error), is    *)
(* followed by its progress message to the invoker: a failed broadcast     *)
(* does not abort the sequence.                                            *)
(***************************************************************************)
LastEntry(e) == trace[e][Len(trace[e])]

BroadcastJustSettled(e) ==
    /\ ev[e].cmd = "restart"
    /\ trace[e] # << >>
    /\ LastEntry(e).t = "settled"
    /\ LastEntry(e).cmd = "PZ_SEND_MSG_CMD"

SendingWarning(e) ==
    /\ pc[e] = "warn_send"
    /\ sending[e] = [via |-> "followUp", text |-> WarningTexts[step[e]]]

C3_FailedBroadcastDoesNotAbort ==
    \A e \in Events : BroadcastJustSettled(e) => SendingWarning(e)

(***************************************************************************)
(* C3, amended.  A warning broadcast that exits 0 is followed by its       *)
(* progress message; one that fails aborts the restart: the handler sends  *)
(* 'Command Failed: ...', and no further broadcast and no restart command  *)
(* is ever issued.  Whenever the restart command of a non-forced restart   *)
(* is issued, exactly 3 broadcasts were attempted, in the order of the     *)
(* warning texts, all of them exited 0, exactly 3 progress messages were   *)
(* delivered and the waits were 90, 20 and 10 seconds, in this order.      *)
(***************************************************************************)
FailedBroadcastIdx(e) ==
    {i \in Idx(e) : IsSettled(e, i, "PZ_SEND_MSG_CMD") /\ Failed(trace[e][i])}

\* The warnings delivered and the broadcasts attempted before entry i.
DeliveredWarnings(e, i) ==
    {j \in Idx(e) : j < i /\ IsWarningSend(e, j) /\ trace[e][j].ok}
BroadcastsBefore(e, i) ==
    {j \in Idx(e) : j < i /\ IsRemote(e, j, "PZ_SEND_MSG_CMD")}

C3_FailedBroadcastAborts ==
    \A e \in Events :
        ev[e].cmd = "restart" =>
            /\ BroadcastJustSettled(e) =>
                  IF Failed(LastEntry(e))
                  THEN /\ pc[e] = "catch_send"
                       /\ FirstSrc(sending[e].text) = FirstSrc(CommandFailed(<< >>))
                  ELSE SendingWarning(e)
            /\ \A i \in FailedBroadcastIdx(e) :
                  \A j \in Idx(e) : j > i => trace[e][j].t \notin {"remote", "delay"}
            /\ \A i \in RemoteIdx(e, "RESTART_CMD") :
                  /\ Cardinality(BroadcastsBefore(e, i)) = NumWarnings
                  /\ Cardinality(DeliveredWarnings(e, i)) = NumWarnings
                  /\ FailedBroadcastIdx(e) = {}
                  /\ DelaysUpTo(e, i) = WarningDelays
                  /\ \A j, k \in BroadcastsBefore(e, i) :
                        j < k => \E a, b \in DOMAIN WarningTexts :
                                    /\ a < b
                                    /\ trace[e][j].arg = WarningTexts[a]
                                    /\ trace[e][k].arg = WarningTexts[b]

\* A restart aborted by its second broadcast exiting non-zero: the failure
\* was reported and the restart command never issued.
C3_Witness ==
    \E e \in Events :
        /\ ev[e].cmd = "restart"
        /\ pc[e] = "done"
        /\ \E i \in FailedBroadcastIdx(e) :
              /\ trace[e][i].ok
              /\ Cardinality(BroadcastsBefore(e, i)) = 2
        /\ RemoteIdx(e, "RESTART_CMD") = {}

(***************************************************************************)
(* C4.  In a non-forced restart the restart command is issued only after   *)
(* the three warning delays of 90, 20 and 10 seconds (120 in total) have   *)
(* elapsed and nothing before it failed: no remote call with an error or a *)
(* non-zero code, no rejected send; and never while a warning step is      *)
(* pending.                                                                *)
(***************************************************************************)
C4_RestartOnlyAfterWarnings ==
    \A e \in Events :
        ev[e].cmd = "restart" =>
            \A i \in RemoteIdx(e, "RESTART_CMD") :
                /\ DelaysUpTo(e, i) = WarningDelays
                /\ SumSeq(DelaysUpTo(e, i)) = 120
                /\ \A j \in 1..(i - 1) :
                      /\ trace[e][j].t = "settled" => ~Failed(trace[e][j])
                      /\ trace[e][j].t = "send" => trace[e][j].ok
                      /\ trace[e][j].t = "remote" => trace[e][j].session
                      /\ trace[e][j].t # "unhandled"
                /\ trace[e][i - 1].t = "delay"
                /\ pc[e] \notin {"warn_remote", "warn_send", "warn_delay"}

\* The restart command of a non-forced restart is running on the host.
C4_Witness ==
    \E e \in Events :
        /\ ev[e].cmd = "restart"
        /\ pc[e] = "exec_remote"
        /\ call[e].cmd = "RESTART_CMD"
        /\ call[e].conn = "stream"

(***************************************************************************)
(* C5.  A forced restart issues no warning broadcast, sends no warning     *)
(* progress message and waits for no delay: the only remote call it makes  *)
(* is the restart command, after the acknowledgment was delivered.         *)
(***************************************************************************)
C5_ForceSkipsWarnings ==
    \A e \in Events :
        ev[e].cmd = "restart-force" =>
            /\ \A i \in Idx(e) :
                  /\ ~IsDelay(e, i)
                  /\ ~IsWarningSend(e, i)
                  /\ trace[e][i].t = "remote" => trace[e][i].cmd = "RESTART_CMD"
            /\ Cardinality(AnyRemoteIdx(e)) <= 1
            /\ pc[e] \notin {"warn_remote", "warn_send", "warn_delay"}
            /\ \A i \in AnyRemoteIdx(e) :
                  /\ i = 3
                  /\ trace[e][1] = SendEntry(Deferral, TRUE)
                  /\ trace[e][2] = SendEntry([via |-> "editReply", text |-> Starting], TRUE)

\* A forced restart whose restart command ran and was reported.
C5_Witness ==
    \E e \in Events :
        /\ ev[e].cmd = "restart-force"
        /\ pc[e] = "done"
        /\ \E i \in Idx(e) : IsSettled(e, i, "RESTART_CMD") /\ ~Failed(trace[e][i])
        /\ \E i \in Idx(e) : IsSuccessSend(e, i) /\ trace[e][i].ok

(***************************************************************************)
(* C6.  Every error raised after authorization by credential resolution,   *)
(* the connection, a broadcast or the command is caught by the handler and *)
(* answered with a failure message that contains the error's description;  *)
(* none becomes an unhandled rejection (the only rejections a handler      *)
(* leaves unhandled come from a rejected Discord send).  Violated by       *)
(* admin-msg, which does not await sendAdminMessage.                       *)
(***************************************************************************)
Mentions(t, src) == \E k \in DOMAIN t : t[k].src = src

C6_RemoteErrorsCaught ==
    \A e \in Events :
        ev[e].auth # "throw" =>
            /\ \A i \in Idx(e) :
                  IsUnhandled(e, i) =>
                      /\ i > 1
                      /\ IsSend(e, i - 1)
                      /\ ~trace[e][i - 1].ok
            /\ \A i \in Idx(e) :
                  (trace[e][i].t = "settled" /\ ~trace[e][i].ok) =>
                      \/ pc[e] = "catch_send" /\ Mentions(sending[e].text, "ssh error")
                      \/ \E j \in Idx(e) :
                            /\ j > i
                            /\ IsFailureSend(e, j)
                            /\ Mentions(trace[e][j].text, "ssh error")

(***************************************************************************)
(* C7.  A success message is sent only after the privileged command of the *)
(* operation completed with exit code 0, and once that command completed   *)
(* with a non-zero code or an error no success message is sent.  Violated  *)
(* by admin-msg, whose 'Mensaje enviado' does not wait for the command.    *)
(***************************************************************************)
CompletedOkBefore(e, i) ==
    \E j \in Idx(e) :
        /\ j < i
        /\ IsSettled(e, j, PrivilegedCmd(ev[e].cmd))
        /\ ~Failed(trace[e][j])

C7_SuccessOnlyAfterExitZero ==
    \A e \in Events :
        /\ \A i \in Idx(e) : IsSuccessSend(e, i) => CompletedOkBefore(e, i)
        /\ FirstSrc(sending[e].text) \in SuccessPrefixes =>
              CompletedOkBefore(e, Len(trace[e]) + 1)
        /\ (\E j \in Idx(e) :
               IsSettled(e, j, PrivilegedCmd(ev[e].cmd)) /\ Failed(trace[e][j]))
             => \A i \in Idx(e) : ~IsSuccessSend(e, i)

(***************************************************************************)
(* C8.  A handled interaction produces exactly one terminal message ('Not  *)
(* authorized.', a success or a failure message), which is delivered and   *)
(* is the last message sent for it; on every path, also when a remote call *)
(* or a send fails.                                                        *)
(***************************************************************************)
TerminalIdx(e) == {i \in Idx(e) : IsTerminalSend(e, i)}

C8_ExactlyOneTerminal ==
    \A e \in Events :
        /\ Cardinality(TerminalIdx(e)) <= 1
        /\ \A i \in TerminalIdx(e) :
              /\ trace[e][i].ok
              /\ \A j \in Idx(e) : j > i => ~IsSend(e, j)
        /\ Finished(e) => Cardinality(TerminalIdx(e)) = 1

(***************************************************************************)
(* C9.  A runRemote call that created a session calls conn.end() exactly   *)
(* once, by the time its promise settles, on every exit path.  Violated by *)
(* the 'error' handler, which rejects without ending the session.          *)
(***************************************************************************)
C9_SessionEndedOnce ==
    \A e \in Events :
        call[e].conn # "none" =>
            /\ call[e].ends <= 1
            /\ call[e].settled \in {"resolved", "rejected"} => call[e].ends = 1

(***************************************************************************)
(* C10.  Every message that carries remote output or an error description  *)
(* (status success, a non-zero-exit failure, a thrown-error failure) is at *)
(* most 1900 characters long, and slicing a text no longer than that       *)
(* leaves it unchanged.  Violated by the status success message, which is  *)
(* not sliced, and by the non-zero-exit messages, which slice the output   *)
(* before the prefix is added.                                             *)
(***************************************************************************)
CarriesOutput(t) ==
    FirstSrc(t) \in FailurePrefixes \cup {FirstSrc(StatusOk(<< >>))}

C10_MessagesBounded ==
    \A e \in Events :
        \A i \in Idx(e) :
            (IsSend(e, i) /\ CarriesOutput(trace[e][i].text)) =>
                /\ TextLen(trace[e][i].text) <= SliceLimit
                /\ Slice(trace[e][i].text, SliceLimit) = trace[e][i].text

(***************************************************************************)
(* isAllowed on its own: every policy against every invoker.  The          *)
(* interaction's record keeps the invoker next to the decision.            *)
(***************************************************************************)
AllPolicies == [user : {NoId, "U1"}, role : {NoId, "R1"}]
AllInvokers ==
    [user : {"U1", "U2"}, member : {"none", "api", "guild"},
     roles : SUBSET {"R1", "R2"}, admin : BOOLEAN]

AuthInit ==
    /\ policy \in AllPolicies
    /\ cfg = FullCfg
    /\ ev = [e \in Events |-> NoEv]
    /\ pc = [e \in Events |-> "idle"]
    /\ step = [e \in Events |-> 0]
    /\ sending = [e \in Events |-> NoSend]
    /\ call = [e \in Events |-> NoCall]
    /\ trace = [e \in Events |-> << >>]

\* isAllowed(i) for one interaction; a TypeError inside it is "throw".
Authorize(e) ==
    /\ pc[e] = "idle"
    /\ \E who \in AllInvokers :
         ev' = [ev EXCEPT ![e] = [cmd |-> "isAllowed", msg |-> << >>, who |-> who,
                                  auth |-> isAllowed(policy, who)]]
    /\ pc' = [pc EXCEPT ![e] = "done"]
    /\ UNCHANGED << policy, cfg, step, sending, call, trace >>

AuthNext == \E e \in Events : Authorize(e)

AuthSpec == AuthInit /\ [][AuthNext]_vars

\* The decision the specification gives: the user is the allowed user, or
\* a role is configured and the member's role list has it, or the invoker
\* is an administrator.
ReferenceDecision(p, who) ==
    \/ p.user # NoId /\ who.user = p.user
    \/ p.role # NoId /\ who.member # "none" /\ p.role \in who.roles
    \/ who.admin

\* C11: isAllowed returns exactly the reference decision (allowed user, or
\* configured role in the member's role list, or administrator), and never
\* raises an error.  Violated under AuthSpec: for a cached guild member and
\* a configured role, isAllowed throws unless the user id already matched.
C11_IsAllowedIsReference ==
    \A e \in Events :
        pc[e] = "done" /\ ev[e].cmd = "isAllowed" =>
            ev[e].auth = IF ReferenceDecision(policy, ev[e].who)
                         THEN "allow" ELSE "deny"

(***************************************************************************)
(* The service under every credential setting and under every single       *)
(* missing key.                                                            *)
(***************************************************************************)
CredentialConfigs ==
    {[FullCfg EXCEPT !["SSH_PRIVATE_KEY_B64"] = b, !["SSH_PRIVATE_KEY"] = r,
                     !["SSH_KEY_PASSPHRASE"] = ph, !["SSH_PASSWORD"] = pw] :
        b \in {"absent", "blank", "set"}, r \in {"absent", "set"},
        ph \in {"absent", "set"}, pw \in {"absent", "set"}}

RequiredKeys == {"PZ_SEND_MSG_CMD", "RESTART_CMD", "STATUS_CMD", "SSH_HOST", "SSH_USER"}

MissingKeyConfigs ==
    {[FullCfg EXCEPT ![k] = v] : k \in RequiredKeys, v \in {"absent", "blank"}}

ConfigInit ==
    /\ policy \in Policies
    /\ cfg \in CredentialConfigs \cup MissingKeyConfigs
    /\ ev = [e \in Events |-> NoEv]
    /\ pc = [e \in Events |-> "idle"]
    /\ step = [e \in Events |-> 0]
    /\ sending = [e \in Events |-> NoSend]
    /\ call = [e \in Events |-> NoCall]
    /\ trace = [e \in Events |-> << >>]

ConfigSpec == ConfigInit /\ [][Next]_vars

\* The descriptor the specification gives: the base64 key if it is set,
\* else the raw key if set, else the password if set, else none; the
\* passphrase goes with a key only.
ReferenceAuth(c) ==
    IF Has(c, "SSH_PRIVATE_KEY_B64")
    THEN [privateKey |-> "b64", passphrase |-> Has(c, "SSH_KEY_PASSPHRASE"),
          password |-> FALSE]
    ELSE IF Has(c, "SSH_PRIVATE_KEY")
    THEN [privateKey |-> "raw", passphrase |-> Has(c, "SSH_KEY_PASSPHRASE"),
          password |-> FALSE]
    ELSE IF Has(c, "SSH_PASSWORD")
    THEN [privateKey |-> "", passphrase |-> FALSE, password |-> TRUE]
    ELSE NoAuth

HostAndUserSet(c) == req(c, "SSH_HOST").ok /\ req(c, "SSH_USER").ok

\* C12: for every setting of base64 key, raw key and password, runRemote
\* connects with the base64 key if it is set, else the raw key if set, else
\* the password if set, and otherwise throws the no-credentials error
\* before a session is created; the descriptor never has both a key and a
\* password, and has a passphrase only with a key.  Violated under
\* ConfigSpec: a base64 setting that decodes to the empty string makes
\* runRemote skip the raw key.
C12_CredentialOrder ==
    \A e \in Events :
        HostAndUserSet(cfg) =>
            /\ \A i \in AnyRemoteIdx(e) :
                  trace[e][i].session = (ReferenceAuth(cfg) # NoAuth)
            /\ call[e].cmd # "none" =>
                  /\ call[e].auth = ReferenceAuth(cfg)
                  /\ ~(call[e].auth.privateKey # "" /\ call[e].auth.password)
                  /\ call[e].auth.passphrase => call[e].auth.privateKey # ""
            /\ ReferenceAuth(cfg) = NoAuth /\ pc[e] = "catch_send" =>
                  Mentions(sending[e].text, FirstSrc(NoCredentialsMsg))

\* The keys without which the operation of command c cannot be carried out.
KeysOf(c) ==
    {"SSH_HOST", "SSH_USER", PrivilegedCmd(c)} \cup
    (IF c = "restart" THEN {"PZ_SEND_MSG_CMD"} ELSE {})

MissingKeys(e) == {k \in KeysOf(ev[e].cmd) : ~req(cfg, k).ok}

\* C15: when a key the operation of an authorized interaction needs is
\* missing or blank, no remote command is run for that interaction and the
\* operation ends with a failure message naming a key that is not set.
\* Violated under ConfigSpec: a restart without RESTART_CMD runs the three
\* warning broadcasts before req('RESTART_CMD') throws, and admin-msg
\* without PZ_SEND_MSG_CMD answers 'Mensaje enviado'.
C15_MissingKeyNoPartialEffect ==
    \A e \in Events :
        ev[e].auth = "allow" /\ ev[e].cmd # "none" /\ MissingKeys(e) # {} =>
            /\ \A i \in AnyRemoteIdx(e) : ~trace[e][i].session
            /\ pc[e] = "done" =>
                  \E i \in Idx(e) :
                      /\ IsFailureSend(e, i)
                      /\ Mentions(trace[e][i].text, " not set")

(***************************************************************************)
(* C13.  No cancellation.                                                  *)
(***************************************************************************)
Stopped(e) == pc[e] \in {"catch_send", "done", "rejected"}

RestartBegun(e) ==
    /\ ev[e].cmd = "restart"
    /\ ev[e].auth = "allow"
    /\ \E i \in Idx(e) : IsSend(e, i) /\ trace[e][i].text = Starting /\ trace[e][i].ok

IsDelayEntry(x) == x.t = "delay"

\* The delays interaction e has waited, in order.
DelaysOf(e) ==
    LET entries == SelectSeq(trace[e], IsDelayEntry) IN
    [k \in DOMAIN entries |-> entries[k].secs]

FailedProgressIdx(e) == {i \in Idx(e) : IsWarningSend(e, i) /\ ~trace[e][i].ok}

\* C13 as claimed: an authorized non-forced restart that has begun always
\* goes through the three delays and invokes the restart command, even when
\* a progress message cannot be sent or a warning step fails; so it never
\* comes to a stop without them.
C13_AlwaysProceedsToRestart ==
    \A e \in Events :
        RestartBegun(e) /\ Stopped(e) =>
            /\ DelaysOf(e) = WarningDelays
            /\ RemoteIdx(e, "RESTART_CMD") # {}

\* What stops a restart: a Discord send that was rejected, a broadcast that
\* failed, a remote call that threw before its session, a missing key.
SomethingFailed(e) ==
    \/ \E i \in Idx(e) : IsSend(e, i) /\ ~trace[e][i].ok
    \/ FailedBroadcastIdx(e) # {}
    \/ \E i \in AnyRemoteIdx(e) : ~trace[e][i].session
    \/ ~req(cfg, "PZ_SEND_MSG_CMD").ok
    \/ ~req(cfg, "RESTART_CMD").ok

\* C13 as amended: only a failure stops an authorized non-forced restart
\* that has begun.  A progress message that cannot be sent stops it: no
\* delay is waited and no remote command is invoked after it.  A restart
\* that stopped without invoking the restart command had a failure, and
\* once the three delays have elapsed the restart command is invoked
\* (unless RESTART_CMD is missing).
C13_OnlyFailureStops ==
    \A e \in Events :
        RestartBegun(e) =>
            /\ \A i \in FailedProgressIdx(e) :
                  /\ \A j \in Idx(e) :
                        j > i => trace[e][j].t \notin {"remote", "delay"}
                  /\ Stopped(e)
            /\ Stopped(e) /\ RemoteIdx(e, "RESTART_CMD") = {} => SomethingFailed(e)
            /\ DelaysOf(e) = WarningDelays =>
                  \/ RemoteIdx(e, "RESTART_CMD") # {}
                  \/ ~req(cfg, "RESTART_CMD").ok

\* C13 witness: the second progress message could not be sent, after the
\* first delay; the handler has sent the failure message and is done, and
\* the restart command was not invoked.
C13_Witness ==
    \E e \in Events :
        /\ RestartBegun(e)
        /\ pc[e] = "done"
        /\ DelaysOf(e) = << WarningDelays[1] >>
        /\ \E i \in FailedProgressIdx(e) : trace[e][i].text = WarningTexts[2]
        /\ RemoteIdx(e, "RESTART_CMD") = {}

(***************************************************************************)
(* Several interactions in flight at once, under the full configuration.   *)
(***************************************************************************)
NumConcurrent == 2
Concurrent == 1..NumConcurrent

PairInit ==
    /\ policy \in Policies
    /\ cfg = FullCfg
    /\ ev = [e \in Concurrent |-> NoEv]
    /\ pc = [e \in Concurrent |-> "idle"]
    /\ step = [e \in Concurrent |-> 0]
    /\ sending = [e \in Concurrent |-> NoSend]
    /\ call = [e \in Concurrent |-> NoCall]
    /\ trace = [e \in Concurrent |-> << >>]

PairNext ==
    \E e \in Concurrent :
        \/ Dispatch(e)
        \/ NotAuthorizedReplied(e)
        \/ Deferred(e)
        \/ Started(e)
        \/ WarningSent(e)
        \/ DelayElapsed(e)
        \/ FinalSent(e)
        \/ CatchSent(e)
        \/ ConnReady(e)
        \/ ExecCallback(e)
        \/ StreamData(e)
        \/ StreamErrData(e)
        \/ StreamClose(e)
        \/ ConnError(e)

PairSpec == PairInit /\ [][PairNext]_vars

\* Every segment of text t is a literal or comes from interaction e.
OwnText(t, e) == \A k \in DOMAIN t : t[k].ev \in {0, e}

\* What interaction e is waiting for can happen now.
CanGoOn(e) ==
    /\ pc[e] = "na_send"    => ENABLED NotAuthorizedReplied(e)
    /\ pc[e] = "defer"      => ENABLED Deferred(e)
    /\ pc[e] = "start_send" => ENABLED Started(e)
    /\ pc[e] = "warn_send"  => ENABLED WarningSent(e)
    /\ pc[e] = "warn_delay" => ENABLED DelayElapsed(e)
    /\ pc[e] = "final_send" => ENABLED FinalSent(e)
    /\ pc[e] = "catch_send" => ENABLED CatchSent(e)
    /\ call[e].conn = "connecting" => ENABLED ConnReady(e)
    /\ call[e].conn = "exec"       => ENABLED ExecCallback(e)
    /\ call[e].conn = "stream"     => ENABLED StreamClose(e)

\* C14: interactions in flight at once are independent.  The session of a
\* remote call starts fresh (empty accumulators, not ended) and its
\* accumulators hold only output of its own interaction; an interaction
\* suspended in a warning delay keeps no other interaction from going on;
\* every message sent for an interaction carries only its own output.
C14_Independent ==
    \A e \in DOMAIN pc :
        /\ call[e].conn \in {"connecting", "exec"} =>
              call[e].stdout = << >> /\ call[e].stderr = << >> /\ call[e].ends = 0
        /\ OwnText(call[e].stdout, e) /\ OwnText(call[e].stderr, e)
        /\ OwnText(sending[e].text, e)
        /\ \A i \in Idx(e) : IsSend(e, i) => OwnText(trace[e][i].text, e)
        /\ (\E d \in DOMAIN pc : d # e /\ pc[d] = "warn_delay") => CanGoOn(e)

\* C14 witness: interaction 1 is suspended in its first warning delay while
\* interaction 2, a status command, has delivered its result, which carries
\* the output of its own session; before that, both had sessions of their
\* own.
C14_Witness ==
    /\ DOMAIN pc = Concurrent
    /\ pc[1] = "warn_delay" /\ step[1] = 1
    /\ ev[2].cmd = "status" /\ pc[2] = "done"
    /\ \E i \in Idx(2) :
          /\ IsSuccessSend(2, i) /\ trace[2][i].ok
          /\ \E k \in DOMAIN trace[2][i].text :
                trace[2][i].text[k].src = "stdout" /\ trace[2][i].text[k].ev = 2

\* C16: for an authorized interaction the deferred acknowledgment is sent
\* and delivered before any remote session, warning broadcast, progress
\* message or terminal message; for a denied interaction no deferred
\* acknowledgment is sent.  Violated by admin-msg, whose handler defers
\* without consulting isAllowed (the bug of C1).
C16_DeferralFirst ==
    \A e \in Events :
        /\ ev[e].auth = "allow" /\ trace[e] # << >> =>
              /\ IsSend(e, 1) /\ trace[e][1].via = "deferReply"
              /\ \A i \in Idx(e) :
                    i > 1 /\ trace[e][i].t \in {"remote", "send"} => trace[e][1].ok
        /\ ev[e].auth = "deny" =>
              /\ sending[e].via # "deferReply"
              /\ \A i \in Idx(e) : IsSend(e, i) => trace[e][i].via # "deferReply"

(***************************************************************************)
(* C17.  The exit code of a stream that closes without one.                *)
(***************************************************************************)
SettledIdx(e) == {i \in Idx(e) : trace[e][i].t = "settled"}

\* The entry of the latest settled remote call of interaction e.
LastSettled(e) ==
    trace[e][CHOOSE i \in SettledIdx(e) : \A j \in SettledIdx(e) : j <= i]

\* C17: when the stream closes with a null exit code, runRemote resolves
\* with code 0, and the handler goes on as after a real exit code 0 (the
\* progress message of the warning step, or the success message of the
\* command; nothing unhandled for the floating call of admin-msg); a
\* non-null exit code is resolved as delivered.
C17_NullCodeIsZero ==
    \A e \in Events :
        call[e].settled = "resolved" =>
            /\ LastSettled(e).ok
            /\ LastSettled(e).cmd = call[e].cmd
            /\ LastSettled(e).code = IF call[e].code = NullCode THEN 0 ELSE call[e].code
            /\ call[e].code = NullCode /\ call[e].role = "floating" =>
                  \A i \in Idx(e) :
                      IsUnhandled(e, i) /\ i > 1 => trace[e][i - 1].t # "settled"
            /\ call[e].code = NullCode /\ call[e].role = "awaited"
                  /\ LastEntry(e).t = "settled" =>
                  \/ /\ pc[e] = "warn_send"
                     /\ sending[e].text = WarningTexts[step[e]]
                  \/ /\ pc[e] = "final_send"
                     /\ FirstSrc(sending[e].text) \in SuccessPrefixes

\* C17 witness: the stream of a status command closed with a null exit
\* code, and the success message was delivered.
C17_Witness ==
    \E e \in Events :
        /\ ev[e].cmd = "status"
        /\ call[e].settled = "resolved" /\ call[e].code = NullCode
        /\ pc[e] = "done"
        /\ \E i \in Idx(e) : IsSuccessSend(e, i) /\ trace[e][i].ok

(***************************************************************************)
(* C18.  Sessions of one interaction.                                      *)
(***************************************************************************)
SessionIdx(e) == {i \in AnyRemoteIdx(e) : trace[e][i].session}

\* The session of the latest call is open: created, not ended, not failed.
SessionOpen(e) == call[e].conn \in {"connecting", "exec", "stream"}

\* C18: an interaction has at most one session open at a time: a session
\* is created only after the one before it has been ended, and once the
\* terminal message of the interaction is delivered none of its sessions
\* is open.  Violated by admin-msg: 'Mensaje enviado' is sent while the
\* session of the un-awaited sendAdminMessage is still open.
C18_OneSessionAtATime ==
    \A e \in Events :
        /\ \A i, j \in SessionIdx(e) :
              i < j => \E k \in Idx(e) : i < k /\ k < j /\ trace[e][k].t = "end"
        /\ \A i \in TerminalIdx(e) : trace[e][i].ok => ~SessionOpen(e)

(***************************************************************************)
(* C19.  The order of the steps of a non-forced restart.                   *)
(***************************************************************************)
RestartStep(kind, val) == [kind |-> kind, val |-> val]

\* broadcast 1, progress 1, wait 90, broadcast 2, progress 2, wait 20,
\* broadcast 3, progress 3, wait 10, restart command.
RECURSIVE CanonicalUpTo(_)
CanonicalUpTo(k) ==
    IF k = 0 THEN << >>
    ELSE CanonicalUpTo(k - 1) \o
         << RestartStep("broadcast", k), RestartStep("progress", k),
            RestartStep("delay", WarningDelays[k]) >>

Canonical == CanonicalUpTo(NumWarnings) \o << RestartStep("restart", 0) >>

\* The step a trace entry stands for, if any.
StepOfEntry(x) ==
    IF x.t = "remote" /\ x.cmd = "RESTART_CMD" THEN << RestartStep("restart", 0) >>
    ELSE IF x.t = "remote" /\ x.cmd = "PZ_SEND_MSG_CMD"
    THEN << RestartStep("broadcast",
                        CHOOSE k \in 0..NumWarnings :
                            IF \E j \in DOMAIN WarningTexts : x.arg = WarningTexts[j]
                            THEN k > 0 /\ x.arg = WarningTexts[k] ELSE k = 0) >>
    ELSE IF x.t = "send" /\ \E j \in DOMAIN WarningTexts : x.text = WarningTexts[j]
    THEN << RestartStep("progress",
                        CHOOSE k \in DOMAIN WarningTexts : x.text = WarningTexts[k]) >>
    ELSE IF x.t = "delay" THEN << RestartStep("delay", x.secs) >>
    ELSE << >>

IsStepEntry(x) == StepOfEntry(x) # << >>

\* The steps interaction e has taken, in order.
StepsOf(e) ==
    LET entries == SelectSeq(trace[e], IsStepEntry) IN
    [k \in DOMAIN entries |-> StepOfEntry(entries[k])[1]]

IsPrefix(s, t) == Len(s) <= Len(t) /\ \A k \in DOMAIN s : s[k] = t[k]

\* C19: the steps of a non-forced restart happen in the order broadcast 1,
\* progress 1, wait 90 s, broadcast 2, progress 2, wait 20 s, broadcast 3,
\* progress 3, wait 10 s, restart command; the progress message of a step
\* is sent only right after its broadcast completed with exit code 0, and a
\* broadcast is issued only after the delay of the step before it elapsed.
C19_RestartOrder ==
    \A e \in Events :
        ev[e].cmd = "restart" =>
            /\ IsPrefix(StepsOf(e), Canonical)
            /\ \A i \in Idx(e) :
                  IsWarningSend(e, i) =>
                      /\ i > 1
                      /\ IsSettled(e, i - 1, "PZ_SEND_MSG_CMD")
                      /\ ~Failed(trace[e][i - 1])
            /\ \A i \in RemoteIdx(e, "PZ_SEND_MSG_CMD") :
                  trace[e][i].arg # WarningTexts[1] => IsDelay(e, i - 1)

\* C19 witness: a restart went through all ten steps.
C19_Witness ==
    \E e \in Events :
        /\ ev[e].cmd = "restart"
        /\ StepsOf(e) = Canonical

=============================================================================
